---------------------------- MODULE Spec2Model ----------------------------
(***************************************************************************)
(* The NASA Bioscience Knowledge Graph Explorer (src/app.py): a Streamlit  *)
(* script that loads a graph G and two tables (nodes_df, edges_df) and, on *)
(* every run, executes top to bottom: the sidebar, then the five tabs.     *)
(* Every widget interaction re-runs the whole script with the new widget   *)
(* values.  A run that raises stops where it raised.                       *)
(*                                                                         *)
(* Strings whose characters the code inspects (entity names, the search    *)
(* term) are sequences of one-character strings; strings the code only     *)
(* compares for equality (predicates, column names) are TLA+ strings.      *)
(* A DataFrame is the sequence of its rows; a frame derived from one by    *)
(* boolean masks, sort_values or head is the sequence of the row labels    *)
(* (1-based positions in the parent table) it keeps, in its own order.     *)
(***************************************************************************)
EXTENDS Integers, Sequences, FiniteSets, TLC

\* ------------------------------------------------------------------ bounds
\* Graph family of SpecGraph: at most MaxNodes nodes, at most MaxGEdges edges.
MaxNodes == 6
MaxGEdges == 5
\* Relationship-table family of SpecRel: at most MaxFree freely chosen rows,
\* followed by 0 or MaxFill rows of pairwise distinct weights.
MaxFree == 2
MaxFill == 9
\* Entity-table family of SpecSearch, and the search terms a user may type.
MaxEntities == 2
MaxNameLen == 2
MaxTermLen == 2

\* ------------------------------------------------------- program constants
TopDegreeK == 5
SearchLimit == 20
DisplayLimit == 100
ConsensusThreshold == 2
ConsensusLimit == 10
TopPageRankK == 15
PreviewLimit == 10

\* ----------------------------------------------------------------- strings
\* Code points of the characters the model uses (Python compares str by them).
Ord(c) ==
    CASE c = "(" -> 40 [] c = "." -> 46 [] c = "A" -> 65 [] c = "B" -> 66
      [] c = "C" -> 67 [] c = "D" -> 68
      [] c = "a" -> 97 [] c = "b" -> 98 [] c = "c" -> 99 [] c = "d" -> 100
      [] c = "e" -> 101 [] c = "f" -> 102 [] c = "g" -> 103 [] c = "h" -> 104
      [] c = "i" -> 105 [] c = "j" -> 106 [] c = "k" -> 107 [] c = "l" -> 108
      [] c = "m" -> 109 [] c = "n" -> 110 [] c = "o" -> 111 [] c = "p" -> 112

\* str.lower() / re.IGNORECASE folding of one character.
Lower(c) ==
    CASE c = "A" -> "a" [] c = "B" -> "b" [] c = "C" -> "c" [] c = "D" -> "d"
      [] OTHER -> c

\* Python's str < str: lexicographic by code point, a proper prefix is smaller.
RECURSIVE StrLess(_, _)
StrLess(s, t) ==
    IF t = <<>> THEN FALSE
    ELSE IF s = <<>> THEN TRUE
    ELSE IF Head(s) = Head(t) THEN StrLess(Tail(s), Tail(t))
    ELSE Ord(Head(s)) < Ord(Head(t))

\* ---------------------------------------------------------------- sequences
Range(s) == {s[i] : i \in 1..Len(s)}

Min(a, b) == IF a < b THEN a ELSE b

\* DataFrame.head(n) / list[:n]
HeadN(s, n) == SubSeq(s, 1, Min(n, Len(s)))

\* The sequences over S of length at most n.
SeqsUpTo(S, n) == UNION {[1..k -> S] : k \in 0..n}

\* ------------------------------------------------------------------- state
VARIABLES
    G_nodes,            \* G: the nodes, in the graph's own (insertion) order
    G_edges,            \* G: the directed edges <<u, v>>
    nodes_df,           \* entity table: rows [node, label]
    nodes_cols,         \* its column names
    edges_df,           \* relationship table: rows [subject, predicate, object, weight]
    edges_cols,         \* its column names
    search_term,        \* widget: st.text_input of tab2
    relationship_type,  \* widget: st.selectbox of tab3
    min_weight,         \* widget: st.slider of tab3
    pc,                 \* the block the run executes next, "done" or "crashed"
    error,              \* the exception that ended the run, or "none"
    ran,                \* the blocks this run has completed
    top_entities,       \* sidebar: <<entity, degree>> pairs
    matches,            \* tab2: row labels of nodes_df
    match_info,         \* tab2: one expander per shown match
    slider_max,         \* tab3: max_value of the slider
    filtered_edges,     \* tab3: row labels of edges_df
    display_df,         \* tab3: [cols, rows]
    consensus,          \* tab3: row labels of edges_df, sorted
    high_conf,          \* tab3: the rows the loop renders
    conn_metric,        \* tab4: [kind, value] of the second metric
    diameter_calls,     \* tab4: number of nx.diameter calls of this run
    top_pagerank,       \* tab4: <<entity, score>> pairs
    preview             \* tab5: [entities, relationships] row labels

data == <<G_nodes, G_edges, nodes_df, nodes_cols, edges_df, edges_cols>>
widgets == <<search_term, relationship_type, min_weight>>
outSidebar == <<top_entities>>
outTab2 == <<matches, match_info>>
outTab3 == <<slider_max, filtered_edges, display_df, consensus, high_conf>>
outTab4 == <<conn_metric, diameter_calls, top_pagerank>>
outTab5 == <<preview>>
vars == <<data, widgets, pc, error, ran, outSidebar, outTab2, outTab3, outTab4, outTab5>>

NodesColumns == <<"node", "label">>
EdgesColumns == <<"subject", "predicate", "object", "weight", "sources">>
NoMetric == [kind |-> "none", value |-> 0]
NoFrame == [cols |-> <<>>, rows |-> <<>>]
NoPreview == [entities |-> <<>>, relationships |-> <<>>]

\* ------------------------------------------------------ graph (networkx)
\* DiGraph adjacency: G.succ[n] and G.pred[n]
Succ(n) == {e[2] : e \in {d \in G_edges : d[1] = n}}
Pred(n) == {e[1] : e \in {d \in G_edges : d[2] = n}}

\* G.degree(n) of a DiGraph: in-degree plus out-degree (a self-loop counts twice)
Degree(n) == Cardinality(Succ(n)) + Cardinality(Pred(n))

\* dict(G.degree()).items(): one pair per node, in G's node order
DegreeItems == [i \in 1..Len(G_nodes) |-> <<G_nodes[i], Degree(G_nodes[i])>>]

\* (mutant) an insertion that puts an item before the items of equal value
InsertDescBeforeEquals(sorted, x) ==
    LET k == Cardinality({i \in 1..Len(sorted) : sorted[i][2] > x[2]})
    IN SubSeq(sorted, 1, k) \o <<x>> \o SubSeq(sorted, k + 1, Len(sorted))

\* sorted(items, key=lambda x: x[1], reverse=True): Python's sort is stable, also
\* with reverse=True, so items of equal value keep the order they came in.
InsertDesc(sorted, x) ==
    LET k == Cardinality({i \in 1..Len(sorted) : sorted[i][2] >= x[2]})
    IN SubSeq(sorted, 1, k) \o <<x>> \o SubSeq(sorted, k + 1, Len(sorted))

RECURSIVE SortedFrom(_, _, _)
SortedFrom(items, i, acc) ==
    IF i > Len(items) THEN acc
    ELSE SortedFrom(items, i + 1, InsertDesc(acc, items[i]))

SortedByValueDesc(items) == SortedFrom(items, 1, <<>>)

\* top_entities = sorted(degree_dict.items(), ...)[:5]
TopEntities == HeadN(SortedByValueDesc(DegreeItems), TopDegreeK)

\* (mutant) the directed graph's successors, to_undirected() left out
NeighborsDirected(n) == Succ(n)

\* G.to_undirected(): an edge joins its endpoints whatever its direction
Neighbors(n) == Succ(n) \cup Pred(n)

\* networkx _plain_bfs: the nodes reachable from the frontier
RECURSIVE PlainBfs(_, _)
PlainBfs(seen, frontier) ==
    IF frontier = {} THEN seen
    ELSE LET next == (UNION {Neighbors(n) : n \in frontier}) \ seen
         IN PlainBfs(seen \cup next, next)

\* nx.is_connected: a BFS from the first node reaches every node
IsConnected ==
    Cardinality(PlainBfs({G_nodes[1]}, {G_nodes[1]})) = Len(G_nodes)

\* nx.number_connected_components: one BFS per node not seen yet, in node order
RECURSIVE CountComponents(_, _)
CountComponents(i, seen) ==
    IF i > Len(G_nodes) THEN 0
    ELSE IF G_nodes[i] \in seen THEN CountComponents(i + 1, seen)
    ELSE 1 + CountComponents(i + 1, seen \cup PlainBfs({G_nodes[i]}, {G_nodes[i]}))

NumberConnectedComponents == CountComponents(1, {})

\* nx.eccentricity(v): the last level of the BFS from v
RECURSIVE BfsDepth(_, _, _)
BfsDepth(seen, frontier, d) ==
    LET next == (UNION {Neighbors(n) : n \in frontier}) \ seen
    IN IF next = {} THEN d ELSE BfsDepth(seen \cup next, next, d + 1)

Eccentricity(v) == BfsDepth({v}, {v}, 0)

\* nx.diameter: the largest eccentricity
Diameter ==
    CHOOSE d \in {Eccentricity(v) : v \in Range(G_nodes)} :
        \A v \in Range(G_nodes) : Eccentricity(v) <= d

\* The connectivity metric of tab4: diameter only behind the is_connected guard.
ConnectivityMetric ==
    IF IsConnected
    THEN [kind |-> "Diameter", value |-> Diameter]
    ELSE [kind |-> "Components", value |-> NumberConnectedComponents]

DiameterCalls == IF IsConnected THEN 1 ELSE 0

\* -------------------------------------------------------------- nx.pagerank
\* Scores are floats in the code; here they are integers, PRScale to the unit.
PRScale == 10000000
\* nx.pagerank's defaults: alpha = 0.85 (in percent), max_iter = 100, and
\* tol = 1.0e-6, of which PRTolInverse is the inverse.
PRAlphaPercent == 85
PRMaxIter == 100
PRTolInverse == 1000000

RECURSIVE SumOver(_, _)
SumOver(S, f) ==
    IF S = {} THEN 0
    ELSE LET x == CHOOSE y \in S : TRUE IN f[x] + SumOver(S \ {x}, f)

Abs(a) == IF a < 0 THEN -a ELSE a

\* Row i of the adjacency matrix adds up to the out-degree of node i, and
\* column j has an entry for every predecessor of node j (nodes by position).
OutDegree(i) == Cardinality(Succ(G_nodes[i]))
PredIndex(j) == {i \in 1..Len(G_nodes) : <<G_nodes[i], G_nodes[j]>> \in G_edges}

\* One power iteration:
\*   x = alpha * (x @ A + sum(x[is_dangling]) * dangling_weights) + (1 - alpha) * p
\* A is the adjacency matrix with each row divided by its sum, p and
\* dangling_weights are uniform, a dangling node is one of out-degree 0.
\* PRStepFrom gives the entries j onwards, dsum being sum(x[is_dangling]).
RECURSIVE PRStepFrom(_, _, _)
PRStepFrom(x, dsum, j) ==
    IF j > Len(x) THEN <<>>
    ELSE LET flow == SumOver(PredIndex(j), [i \in PredIndex(j) |-> x[i] \div OutDegree(i)])
         IN << (PRAlphaPercent * (flow + dsum \div Len(x))
                  + (100 - PRAlphaPercent) * (PRScale \div Len(x))) \div 100 >>
            \o PRStepFrom(x, dsum, j + 1)

PRStep(x) ==
    PRStepFrom(x, SumOver({i \in 1..Len(x) : OutDegree(i) = 0}, x), 1)

\* The loop: stop when err = sum |x - xlast| < N * tol; after max_iter
\* iterations without that, PowerIterationFailedConvergence (ok is FALSE).
RECURSIVE PRIterate(_, _)
PRIterate(x, iter) ==
    IF iter >= PRMaxIter THEN [ok |-> FALSE, x |-> x]
    ELSE LET y == PRStep(x)
             err == SumOver(1..Len(x), [i \in 1..Len(x) |-> Abs(y[i] - x[i])])
         IN IF err < Len(G_nodes) * (PRScale \div PRTolInverse)
            THEN [ok |-> TRUE, x |-> y]
            ELSE PRIterate(y, iter + 1)

\* The scores of one node each, PRScale in all, before the first iteration.
RECURSIVE Uniform(_)
Uniform(n) == IF n = 0 THEN <<>> ELSE Uniform(n - 1) \o <<PRScale \div Len(G_nodes)>>

\* nx.pagerank(G): x starts uniform
PageRank == PRIterate(Uniform(Len(G_nodes)), 0)

\* pagerank.items(): one pair per node, in G's node order
PageRankItems(x) == [i \in 1..Len(G_nodes) |-> <<G_nodes[i], x[i]>>]

\* (mutant) the sort without reverse=True: ascending by score
RECURSIVE SortedAscFrom(_, _, _)
SortedAscFrom(items, i, acc) ==
    IF i > Len(items) THEN acc
    ELSE LET k == Cardinality({j \in 1..Len(acc) : acc[j][2] <= items[i][2]})
         IN SortedAscFrom(items, i + 1,
                SubSeq(acc, 1, k) \o <<items[i]>> \o SubSeq(acc, k + 1, Len(acc)))

TopPageRankAscending(x) == HeadN(SortedAscFrom(PageRankItems(x), 1, <<>>), TopPageRankK)

\* top_pagerank = sorted(pagerank.items(), key=lambda x: x[1], reverse=True)[:15]
TopPageRank(x) == HeadN(SortedByValueDesc(PageRankItems(x)), TopPageRankK)

\* ------------------------------------------------------- search (tab2)
\* nodes_df['node'].str.contains(term, case=False, na=False): regex defaults to
\* True, so pandas compiles the term as a regular expression with re.IGNORECASE
\* and keeps the rows where regex.search finds it.  Of the regex syntax the
\* model has the literal characters, "." (any character) and "(" (which opens a
\* group: without its ")", re.compile raises re.error).
RegexCompiles(term) == \A k \in 1..Len(term) : term[k] # "("

AtomMatches(p, c) == p = "." \/ Lower(p) = Lower(c)

RegexSearch(term, name) ==
    \E off \in 0..(Len(name) - Len(term)) :
        \A k \in 1..Len(term) : AtomMatches(term[k], name[off + k])

\* A boolean mask applied to a frame keeps the labels that pass, in the frame's
\* order: SelectSeq.

AllLabels(df) == [i \in 1..Len(df) |-> i]

Matches ==
    LET hit(i) == RegexSearch(search_term, nodes_df[i].node)
    IN SelectSeq(AllLabels(nodes_df), hit)

\* One expander of the loop over matches.head(20): the entity and the sizes of
\* related_out (rows with subject == node) and related_in (object == node).
MatchInfo(i) ==
    [node |-> nodes_df[i].node,
     label |-> nodes_df[i].label,
     outgoing |-> Cardinality({j \in 1..Len(edges_df) : edges_df[j].subject = nodes_df[i].node}),
     incoming |-> Cardinality({j \in 1..Len(edges_df) : edges_df[j].object = nodes_df[i].node})]

\* ------------------------------------------------ relationships (tab3)
\* ["All"] + sorted(edges_df['predicate'].unique().tolist()): the choices
SelectboxOptions == {"All"} \cup {edges_df[i].predicate : i \in 1..Len(edges_df)}

\* int(edges_df['weight'].max()); of an empty column max() is NaN and int raises
MaxWeightOf(df) ==
    CHOOSE m \in {df[i].weight : i \in 1..Len(df)} :
        \A i \in 1..Len(df) : df[i].weight <= m

\* (mutant) the weight mask with > for >=
ByWeightStrict ==
    LET strong(i) == edges_df[i].weight > min_weight
    IN SelectSeq([i \in 1..Len(edges_df) |-> i], strong)

\* edges_df[edges_df['weight'] >= min_weight].copy()
ByWeight ==
    LET strong(i) == edges_df[i].weight >= min_weight
    IN SelectSeq(AllLabels(edges_df), strong)

\* if relationship_type != "All": filtered_edges[filtered_edges['predicate'] == ...]
FilteredEdges ==
    LET typed(i) == edges_df[i].predicate = relationship_type
    IN IF relationship_type # "All" THEN SelectSeq(ByWeight, typed) ELSE ByWeight

\* (mutant) the consensus mask with >= for >
ConsensusRowsInclusive(filtered) ==
    LET high(i) == edges_df[i].weight >= ConsensusThreshold
    IN SelectSeq(filtered, high)

\* filtered_edges[filtered_edges['weight'] > 2]
ConsensusRows(filtered) ==
    LET high(i) == edges_df[i].weight > ConsensusThreshold
    IN SelectSeq(filtered, high)

RECURSIVE Perms(_)
Perms(S) ==
    IF S = {} THEN {<<>>}
    ELSE UNION {{<<x>> \o p : p \in Perms(S \ {x})} : x \in S}

\* .sort_values('weight', ascending=False): kind defaults to 'quicksort', which
\* is not stable, so rows of equal weight come out in an order that depends on
\* the numpy build and the table size: every order that is descending by weight
\* is a possible result.
RECURSIVE DescendingOrders(_)
DescendingOrders(S) ==
    IF S = {} THEN {<<>>}
    ELSE LET m == CHOOSE w \in {edges_df[i].weight : i \in S} :
                    \A i \in S : edges_df[i].weight <= w
             top == {i \in S : edges_df[i].weight = m}
         IN {p \o q : p \in Perms(top), q \in DescendingOrders(S \ top)}

SortValuesDesc(rows) == DescendingOrders(Range(rows))

\* display_df.columns = [...]: the labels display_df gets
DisplayColumns == <<"Entity 1", "Relationship", "Entity 2", "Strength">>

\* (mutant) display_df sharing its column labels with edges_df
EdgesColumnsRenamedInPlace == DisplayColumns

\* edges_df's own column labels once display_df.columns is assigned: display_df
\* is a new frame (a column selection, then head), so they stay as they are.
EdgesColumnsAfterDisplay == edges_cols

\* ------------------------------------------------------------ script blocks
\* An uncaught exception ends the run: Streamlit shows it and renders no more.
Crash(e) == pc' = "crashed" /\ error' = e /\ UNCHANGED ran

Goto(block, next) == pc' = next /\ ran' = ran \cup {block} /\ UNCHANGED error

\* The sidebar: three metrics (2*|E|/|V| divides by the number of nodes), then
\* the most connected entities.
Sidebar ==
    /\ pc = "sidebar"
    /\ IF Len(G_nodes) = 0
       THEN Crash("ZeroDivisionError") /\ UNCHANGED top_entities
       ELSE top_entities' = TopEntities /\ Goto("sidebar", "tab1")
    /\ UNCHANGED <<data, widgets, outTab2, outTab3, outTab4, outTab5>>

\* Tab 1: the two charts and the source-document table, read from the tables.
Tab1 ==
    /\ pc = "tab1"
    /\ Goto("tab1", "tab2")
    /\ UNCHANGED <<data, widgets, outSidebar, outTab2, outTab3, outTab4, outTab5>>

\* Tab 2: nothing when the box is empty; else the matches, and one expander
\* for each of the first 20.
Tab2 ==
    /\ pc = "tab2"
    /\ IF search_term = <<>>
       THEN Goto("tab2", "tab3") /\ UNCHANGED outTab2
       ELSE IF ~RegexCompiles(search_term)
       THEN Crash("re.error") /\ UNCHANGED outTab2
       ELSE /\ matches' = Matches
            /\ match_info' = LET shown == HeadN(Matches, SearchLimit)
                             IN [k \in 1..Len(shown) |-> MatchInfo(shown[k])]
            /\ Goto("tab2", "tab3")
    /\ UNCHANGED <<data, widgets, outSidebar, outTab3, outTab4, outTab5>>

\* Tab 3: the selectbox, the slider (whose max_value needs a weight), the
\* filtered table, its first 100 rows under new column labels, and the
\* high-confidence list.
Tab3 ==
    /\ pc = "tab3"
    /\ IF edges_df = <<>>
       THEN Crash("ValueError") /\ UNCHANGED <<outTab3, edges_cols>>
       ELSE /\ slider_max' = MaxWeightOf(edges_df)
            /\ filtered_edges' = FilteredEdges
            /\ display_df' = [cols |-> DisplayColumns,
                              rows |-> HeadN(FilteredEdges, DisplayLimit)]
            /\ edges_cols' = EdgesColumnsAfterDisplay
            /\ \E order \in SortValuesDesc(ConsensusRows(FilteredEdges)) :
                 /\ consensus' = order
                 /\ high_conf' = HeadN(order, ConsensusLimit)
            /\ Goto("tab3", "tab4")
    /\ UNCHANGED <<G_nodes, G_edges, nodes_df, nodes_cols, edges_df>>
    /\ UNCHANGED <<widgets, outSidebar, outTab2, outTab4, outTab5>>

\* Tab 4: density, the connectivity metric, clustering, then the PageRank table.
Tab4 ==
    /\ pc = "tab4"
    /\ conn_metric' = ConnectivityMetric
    /\ diameter_calls' = DiameterCalls
    /\ LET pr == PageRank
       IN IF pr.ok
          THEN top_pagerank' = TopPageRank(pr.x) /\ Goto("tab4", "tab5")
          ELSE Crash("PowerIterationFailedConvergence") /\ UNCHANGED top_pagerank
    /\ UNCHANGED <<data, widgets, outSidebar, outTab2, outTab3, outTab5>>

\* Tab 5: the two CSV downloads and the previews nodes_df.head(10), edges_df.head(10).
Tab5 ==
    /\ pc = "tab5"
    /\ preview' = [entities |-> HeadN(AllLabels(nodes_df), PreviewLimit),
                   relationships |-> HeadN(AllLabels(edges_df), PreviewLimit)]
    /\ Goto("tab5", "done")
    /\ UNCHANGED <<data, widgets, outSidebar, outTab2, outTab3, outTab4>>

\* ------------------------------------------------------------------ reruns
\* A widget interaction runs the script again from its first line; load_data is
\* cached, so the run sees the same G, nodes_df and edges_df.
Fresh ==
    /\ pc = "sidebar" /\ error = "none" /\ ran = {}
    /\ top_entities = <<>>
    /\ matches = <<>> /\ match_info = <<>>
    /\ slider_max = 0 /\ filtered_edges = <<>> /\ display_df = NoFrame
    /\ consensus = <<>> /\ high_conf = <<>>
    /\ conn_metric = NoMetric /\ diameter_calls = 0 /\ top_pagerank = <<>>
    /\ preview = NoPreview

Rerun ==
    /\ pc \in {"done", "crashed"}
    /\ pc' = "sidebar" /\ error' = "none" /\ ran' = {}
    /\ top_entities' = <<>>
    /\ matches' = <<>> /\ match_info' = <<>>
    /\ slider_max' = 0 /\ filtered_edges' = <<>> /\ display_df' = NoFrame
    /\ consensus' = <<>> /\ high_conf' = <<>>
    /\ conn_metric' = NoMetric /\ diameter_calls' = 0 /\ top_pagerank' = <<>>
    /\ preview' = NoPreview
    /\ UNCHANGED data

\* The characters a user types, and the terms built of them.
TermAlphabet == {"a", "A", "b", ".", "("}
Terms == SeqsUpTo(TermAlphabet, MaxTermLen)

\* The text box is rendered once tab 1 is through.
ChangeSearch ==
    /\ "tab1" \in ran
    /\ \E t \in Terms \ {search_term} : search_term' = t
    /\ UNCHANGED <<relationship_type, min_weight>>
    /\ Rerun

\* The selectbox is rendered once tab 2 is through.
ChangeType ==
    /\ "tab2" \in ran
    /\ \E t \in SelectboxOptions \ {relationship_type} : relationship_type' = t
    /\ UNCHANGED <<search_term, min_weight>>
    /\ Rerun

\* The slider is rendered when its max_value could be computed.
ChangeWeight ==
    /\ "tab3" \in ran
    /\ \E w \in (1..slider_max) \ {min_weight} : min_weight' = w
    /\ UNCHANGED <<search_term, relationship_type>>
    /\ Rerun

\* ------------------------------------------------------------ loaded data
\* The state after load_data() returned: the graph and the two tables as read
\* from the three files, the widgets at their defaults, the run at its start.
Loaded(gn, ge, ndf, edf) ==
    /\ G_nodes = gn /\ G_edges = ge
    /\ nodes_df = ndf /\ nodes_cols = NodesColumns
    /\ edges_df = edf /\ edges_cols = EdgesColumns
    /\ search_term = <<>> /\ relationship_type = "All" /\ min_weight = 1
    /\ Fresh

Entity(name) == [node |-> name, label |-> "gene"]
Relationship(s, p, o, w) == [subject |-> s, predicate |-> p, object |-> o, weight |-> w]
EntityTable(names) == [i \in 1..Len(names) |-> Entity(names[i])]

\* Two snapshots of three entities and three relationships, and of one isolated
\* entity, and the empty snapshot.
Snapshots ==
    { [gn |-> << <<"A">>, <<"B">>, <<"C">> >>,
       ge |-> { << <<"A">>, <<"B">> >>, << <<"B">>, <<"C">> >>, << <<"A">>, <<"C">> >> },
       edf |-> << Relationship(<<"A">>, "regulates", <<"B">>, 3),
                  Relationship(<<"B">>, "regulates", <<"C">>, 1),
                  Relationship(<<"A">>, "interacts", <<"C">>, 5) >>],
      [gn |-> << <<"D">> >>, ge |-> {}, edf |-> <<>>],
      [gn |-> <<>>, ge |-> {}, edf |-> <<>>] }

Init == \E s \in Snapshots : Loaded(s.gn, s.ge, EntityTable(s.gn), s.edf)

Run == Sidebar \/ Tab1 \/ Tab2 \/ Tab3 \/ Tab4 \/ Tab5

Next == Run \/ ChangeSearch \/ ChangeType \/ ChangeWeight

Spec == Init /\ [][Next]_vars

\* ------------------------------------------------------- graphs (SpecGraph)
\* Node names, and the graphs over the first n of them: the nodes in ascending
\* or descending order of name, the edges any set of at most MaxGEdges edges
\* out of: the ordered pairs of the first three nodes, a self-loop on the first,
\* and the chain 3 -> 4 -> ... -> n.  Beside these, the graphs of one node more
\* than the PageRank table shows, with at most one edge.  The tables beside the
\* graph: the entities in ascending order of name whatever the graph's order
\* (the files are read independently), and one relationship.
Letters ==
    <<"a", "b", "c", "d", "e", "f", "g", "h", "i", "j", "k", "l", "m", "n", "o", "p">>

NodeOrders(n) ==
    { [i \in 1..n |-> <<Letters[i]>>], [i \in 1..n |-> <<Letters[n + 1 - i]>>] }

CandidateEdges(n) ==
    { e \in { << <<Letters[i]>>, <<Letters[j]>> >> : i, j \in 1..Min(n, 3) } :
        e[1] # e[2] \/ e[1] = <<Letters[1]>> }
      \cup { << <<Letters[i]>>, <<Letters[i + 1]>> >> : i \in 3..(n - 1) }

EdgeSets(n, most) == {E \in SUBSET CandidateEdges(n) : Cardinality(E) <= most}

GraphSizes ==
    { [n |-> n, most |-> MaxGEdges] : n \in 0..MaxNodes }
      \cup { [n |-> TopPageRankK + 1, most |-> 1] }

OneRelationship == << Relationship(<<"a">>, "regulates", <<"b">>, 3) >>

InitGraph ==
    \E z \in GraphSizes : \E gn \in NodeOrders(z.n) : \E ge \in EdgeSets(z.n, z.most) :
        Loaded(gn, ge, EntityTable([i \in 1..z.n |-> <<Letters[i]>>]), OneRelationship)

\* The first run of the script, the widgets at their defaults.
SpecGraph == InitGraph /\ [][Run]_vars

\* ------------------------------------------- relationship tables (SpecRel)
\* The tables: at most MaxFree rows of any predicate and of a weight below, at
\* or above the consensus threshold, then none or MaxFill rows of weights
\* threshold + 2, threshold + 3, ...
FreeRows ==
    { Relationship(<<"a">>, p, <<"b">>, w) :
        p \in {"regulates", "all"}, w \in 1..(ConsensusThreshold + 1) }

FillRows(k) ==
    [i \in 1..k |-> Relationship(<<"a">>, "regulates", <<"b">>, ConsensusThreshold + 1 + i)]

RelationshipTables ==
    { free \o FillRows(k) : free \in SeqsUpTo(FreeRows, MaxFree), k \in {0, MaxFill} }

TwoNodes == << <<"a">>, <<"b">> >>

InitRel ==
    \E edf \in RelationshipTables :
        Loaded(TwoNodes, { << <<"a">>, <<"b">> >> }, EntityTable(TwoNodes), edf)

\* The runs of a user who works the two widgets of tab 3.
NextRel == Run \/ ChangeType \/ ChangeWeight

SpecRel == InitRel /\ [][NextRel]_vars

\* ------------------------------------------------ entity tables (SpecSearch)
\* The tables: at most MaxEntities entities of distinct names of at most
\* MaxNameLen characters; the graph has the same nodes and no edge.
NameAlphabet == {"a", "A", "b"}
Names == SeqsUpTo(NameAlphabet, MaxNameLen) \ {<<>>}

NameLists ==
    { l \in SeqsUpTo(Names, MaxEntities) :
        \A i, j \in 1..Len(l) : i # j => l[i] # l[j] }

InitSearch ==
    \E names \in NameLists :
        Loaded(names, {}, EntityTable(names), OneRelationship)

\* The runs of a user who types into the search box.
NextSearch == Run \/ ChangeSearch

SpecSearch == InitSearch /\ [][NextSearch]_vars

\* ================================================================== claims
\* Vocabulary of the claims, stated apart from the code's own computations.
PosIn(seq, x) == CHOOSE i \in 1..Len(seq) : seq[i] = x
Weight(i) == edges_df[i].weight
Increasing(labels) == \A j, k \in 1..Len(labels) : j < k => labels[j] < labels[k]
Distinct(seq) == \A j, k \in 1..Len(seq) : j # k => seq[j] # seq[k]

\* The undirected projection: u and v are joined when an edge runs either way.
Joined(u, v) == <<u, v>> \in G_edges \/ <<v, u>> \in G_edges

\* The nodes within k hops of u.
RECURSIVE Ball(_, _)
Ball(u, k) ==
    IF k = 0 THEN {u}
    ELSE LET B == Ball(u, k - 1)
         IN B \cup {v \in Range(G_nodes) : \E w \in B : Joined(w, v)}

\* The connected components: for each node, the nodes some path joins it to.
TrueComponents == {Ball(u, Len(G_nodes)) : u \in Range(G_nodes)}

\* The hop distance, and the longest distance.
Dist(u, v) ==
    CHOOSE k \in 0..Len(G_nodes) :
        v \in Ball(u, k) /\ \A h \in 0..(k - 1) : v \notin Ball(u, h)
TrueDiameter ==
    CHOOSE d \in 0..Len(G_nodes) :
        /\ \A u, v \in Range(G_nodes) : Dist(u, v) <= d
        /\ \E u, v \in Range(G_nodes) : Dist(u, v) = d

\* The number of edge ends at n.
TrueDegree(n) ==
    Cardinality({e \in G_edges : e[1] = n}) + Cardinality({e \in G_edges : e[2] = n})

NonIncreasing(pairs) ==
    \A j, k \in 1..Len(pairs) : j < k => pairs[j][2] >= pairs[k][2]

\* Pairs of equal value come in the order their names have in seq.
TiesInOrderOf(pairs, seq) ==
    \A j, k \in 1..Len(pairs) :
        (j < k /\ pairs[j][2] = pairs[k][2])
            => PosIn(seq, pairs[j][1]) < PosIn(seq, pairs[k][1])

NodeColumn == [i \in 1..Len(nodes_df) |-> nodes_df[i].node]

\* ---- C1
\* C1: connectivity() returns the diameter of the undirected projection, and
\* computes it, exactly when the projection has one connected component;
\* otherwise it returns the number of components and never calls the diameter.
C1_Connectivity ==
    conn_metric # NoMetric =>
        IF Cardinality(TrueComponents) = 1
        THEN /\ conn_metric = [kind |-> "Diameter", value |-> TrueDiameter]
             /\ diameter_calls = 1
        ELSE /\ conn_metric = [kind |-> "Components", value |-> Cardinality(TrueComponents)]
             /\ diameter_calls = 0

\* A connected graph of four nodes or more whose diameter is at least 3.
C1_Witness ==
    /\ conn_metric.kind = "Diameter" /\ conn_metric.value >= 3
    /\ diameter_calls = 1 /\ Len(G_nodes) >= 4

\* ---- C5
\* What C5 says of the sidebar list apart from the order of ties: at most k
\* pairs, of distinct entities with their true degrees, in non-increasing order
\* of degree, and no entity left out has a higher degree than one listed.
TopByDegreeShape ==
    /\ Len(top_entities) = Min(TopDegreeK, Len(G_nodes))
    /\ \A k \in 1..Len(top_entities) :
         /\ top_entities[k][1] \in Range(G_nodes)
         /\ top_entities[k][2] = TrueDegree(top_entities[k][1])
    /\ Distinct(top_entities)
    /\ NonIncreasing(top_entities)
    /\ \A n \in Range(G_nodes) \ {top_entities[k][1] : k \in 1..Len(top_entities)} :
         \A k \in 1..Len(top_entities) : TrueDegree(n) <= top_entities[k][2]

\* C5 (amended): topByDegree(k) returns at most k pairs with the true degrees,
\* in non-increasing order of degree, entities of equal degree in the order of
\* the graph's nodes; an entity of the last listed degree that is left out
\* comes later in that order, so the list is a function of the graph.
C5_TopByDegreeGraphOrder ==
    "sidebar" \in ran =>
        /\ TopByDegreeShape
        /\ TiesInOrderOf(top_entities, G_nodes)
        /\ \A n \in Range(G_nodes) \ {top_entities[k][1] : k \in 1..Len(top_entities)} :
             \A k \in 1..Len(top_entities) :
                TrueDegree(n) = top_entities[k][2]
                    => PosIn(G_nodes, top_entities[k][1]) < PosIn(G_nodes, n)

\* More entities than the list holds, two of equal degree listed, and a graph
\* whose node order is not the entity table's.
C5_Witness ==
    /\ "sidebar" \in ran
    /\ Len(G_nodes) > TopDegreeK
    /\ G_nodes # NodeColumn
    /\ \E j, k \in 1..Len(top_entities) : j < k /\ top_entities[j][2] = top_entities[k][2]
    /\ \E j, k \in 1..Len(top_entities) : top_entities[j][2] > top_entities[k][2]

\* C5 as stated: entities of equal degree appear in the order in which they
\* occur in the source entity table.
C5_TopByDegreeTableOrder ==
    "sidebar" \in ran =>
        /\ TopByDegreeShape
        /\ TiesInOrderOf(top_entities, NodeColumn)

\* ---- C6
\* What C6 says of the PageRank table apart from the order of ties: at most k
\* pairs, of distinct entities, in non-increasing order of score.
TopByPageRankShape ==
    /\ Len(top_pagerank) = Min(TopPageRankK, Len(G_nodes))
    /\ \A k \in 1..Len(top_pagerank) : top_pagerank[k][1] \in Range(G_nodes)
    /\ Distinct([k \in 1..Len(top_pagerank) |-> top_pagerank[k][1]])
    /\ NonIncreasing(top_pagerank)

\* C6 (amended): topByPageRank(k) returns at most k pairs in non-increasing
\* order of score, entities of equal score in the order of the graph's nodes
\* (the order in which they were inserted into the graph).
C6_TopByPageRankGraphOrder ==
    "tab4" \in ran =>
        /\ TopByPageRankShape
        /\ TiesInOrderOf(top_pagerank, G_nodes)

\* More entities than the table holds, and two of equal score listed against
\* the lexicographic order of their names.
C6_Witness ==
    /\ "tab4" \in ran
    /\ Len(G_nodes) > TopPageRankK
    /\ \E j, k \in 1..Len(top_pagerank) :
         /\ j < k /\ top_pagerank[j][2] = top_pagerank[k][2]
         /\ StrLess(top_pagerank[k][1], top_pagerank[j][1])
    /\ \E j, k \in 1..Len(top_pagerank) : top_pagerank[j][2] > top_pagerank[k][2]

\* C6 as stated: entities of equal score appear in lexicographic order of
\* name, whatever the order in which they were inserted into the graph.
C6_TopByPageRankLexicographic ==
    "tab4" \in ran =>
        /\ TopByPageRankShape
        /\ \A j, k \in 1..Len(top_pagerank) :
             (j < k /\ top_pagerank[j][2] = top_pagerank[k][2])
                => StrLess(top_pagerank[j][1], top_pagerank[k][1])

\* ---- C2
\* Row i passes filter(predicateFilter, minWeight) when sentinel is the value of
\* predicateFilter that stands for "no predicate filter".
Passes(i, sentinel) ==
    /\ Weight(i) >= min_weight
    /\ (relationship_type = sentinel \/ edges_df[i].predicate = relationship_type)

\* C2 (amended): filter returns exactly the relationships with weight >=
\* minWeight and, unless predicateFilter is the sentinel "All" (capital A,
\* compared as it is written), predicate == predicateFilter, in table order;
\* filter("All", 1) returns the whole table.
C2_FilterSentinelAll ==
    "tab3" \in ran =>
        /\ Increasing(filtered_edges)
        /\ \A i \in 1..Len(edges_df) : i \in Range(filtered_edges) <=> Passes(i, "All")
        /\ (relationship_type = "All" /\ min_weight = 1
               => filtered_edges = AllLabels(edges_df))

\* "all" chosen as the predicate, a weight bound above 1, and a table of which
\* the filter keeps some rows, drops one for its weight and one for its predicate.
C2_Witness ==
    /\ "tab3" \in ran
    /\ relationship_type = "all" /\ min_weight > 1
    /\ filtered_edges # <<>>
    /\ \E i \in 1..Len(edges_df) : Weight(i) < min_weight
    /\ \E i \in 1..Len(edges_df) :
         Weight(i) >= min_weight /\ edges_df[i].predicate # "all"

\* C2 as stated, at the instance it names: filter(predicateFilter = "all",
\* minWeight = 1) returns the full relationship set, unchanged in order and count.
C2_FilterSentinelLowercase ==
    ("tab3" \in ran /\ relationship_type = "all" /\ min_weight = 1)
        => filtered_edges = AllLabels(edges_df)

\* ---- C3
\* The rows of the filtered sequence above the threshold.
Eligible == {i \in Range(filtered_edges) : Weight(i) > ConsensusThreshold}

\* C3: highConfidence returns only rows of the filtered sequence with weight >
\* threshold, in non-increasing order of weight, at most limit of them, and
\* when it leaves an eligible row out it is full and holds no lighter row.
C3_HighConfidence ==
    "tab3" \in ran =>
        /\ \A k \in 1..Len(high_conf) : high_conf[k] \in Eligible
        /\ Distinct(high_conf)
        /\ \A j, k \in 1..Len(high_conf) : j < k => Weight(high_conf[j]) >= Weight(high_conf[k])
        /\ Len(high_conf) <= ConsensusLimit
        /\ \A i \in Eligible \ Range(high_conf) :
             /\ Len(high_conf) = ConsensusLimit
             /\ \A k \in 1..Len(high_conf) : Weight(high_conf[k]) >= Weight(i)

\* A filtered sequence with more rows above the threshold than the limit: the
\* list is full, and the row it leaves out weighs as much as one it keeps.
C3_Witness ==
    /\ "tab3" \in ran
    /\ Len(high_conf) = ConsensusLimit
    /\ \E i \in Eligible \ Range(high_conf) : \E k \in 1..Len(high_conf) :
         Weight(high_conf[k]) = Weight(i)

\* ---- C9
\* C9: rows of equal weight appear in highConfidence's output in the order they
\* have in the filtered sequence, and where the limit cuts a group of equal
\* weights it keeps the group's first rows.
C9_StableTies ==
    "tab3" \in ran =>
        /\ \A j, k \in 1..Len(high_conf) :
             (j < k /\ Weight(high_conf[j]) = Weight(high_conf[k]))
                => high_conf[j] < high_conf[k]
        /\ \A i \in Eligible \ Range(high_conf) : \A k \in 1..Len(high_conf) :
             Weight(high_conf[k]) = Weight(i) => high_conf[k] < i

\* ---- C7
\* Tab 3 has run, to its end or to an exception.
Tab3Over == "tab3" \in ran \/ (pc = "crashed" /\ "tab2" \in ran)

\* C7: maxWeight() is the largest weight of the table, and on an empty table
\* it fails with the typed failure EmptyGraph, not with a raw exception.
C7_MaxWeightOrEmptyGraph ==
    Tab3Over =>
        IF edges_df = <<>>
        THEN error = "EmptyGraph"
        ELSE /\ error = "none"
             /\ slider_max \in {Weight(i) : i \in 1..Len(edges_df)}
             /\ \A i \in 1..Len(edges_df) : Weight(i) <= slider_max

\* ---- C4
\* Case folding of a string, and the literal occurrence of t in name.
Fold(str) == [i \in 1..Len(str) |-> Lower(str[i])]
OccursIn(t, name) ==
    \E off \in 0..(Len(name) - Len(t)) :
        \A k \in 1..Len(t) : name[off + k] = t[k]

\* C4: an entity is a match of search(term) exactly when the case-folded term
\* occurs as a literal substring of its case-folded name.
C4_LiteralSubstring ==
    ("tab2" \in ran /\ search_term # <<>>) =>
        \A i \in 1..Len(nodes_df) :
            i \in Range(matches) <=> OccursIn(Fold(search_term), Fold(nodes_df[i].node))

\* ---- C10
\* Tab 2 has run, to its end or to an exception.
Tab2Over == "tab2" \in ran \/ (pc = "crashed" /\ "tab1" \in ran /\ "tab2" \notin ran)

\* C10: for every non-empty term the search returns, without an error, its
\* matches in entity-table order cut to the first limit, the empty sequence
\* when no entity matches.
C10_SearchReturns ==
    (Tab2Over /\ search_term # <<>>) =>
        /\ "tab2" \in ran
        /\ Increasing(matches)
        /\ Len(match_info) = Min(SearchLimit, Len(matches))
        /\ \A k \in 1..Len(match_info) : match_info[k].node = nodes_df[matches[k]].node

\* ---- C8
\* C8: no step of any run changes the graph, the entity table or the
\* relationship table: no node, edge or row is added, removed, reordered or
\* modified and no column label of either table changes.
C8_ReadOnly == [][data' = data]_vars

\* A finished run, not the first, in which the search, the filter with both
\* widgets off their defaults, the renamed display frame, the high-confidence
\* list, the metrics and the previews have all been computed.
C8_Witness ==
    /\ pc = "done"
    /\ search_term # <<>> /\ matches # <<>>
    /\ relationship_type # "All" /\ min_weight > 1
    /\ display_df.cols = DisplayColumns /\ display_df.rows # <<>>
    /\ high_conf # <<>>
    /\ conn_metric # NoMetric /\ top_pagerank # <<>>
    /\ preview.relationships # <<>>
    /\ edges_cols = EdgesColumns

=============================================================================
